---- MODULE Spec2Model ----
(***************************************************************************)
(* Model of src/src/nemos/nemos_cli.py: option parsing, the resolution of  *)
(* the job configuration (get_neos_config) and the NEOS job protocol of    *)
(* solve_nl_file (submit, poll, finalize).                                 *)
(*                                                                         *)
(* The specifications share the definitions:                               *)
(*   SpecRun      solve_nl_file from its entry, as written.  Its call at   *)
(*                line 286, get_neos_config(neos), leaves out the odict    *)
(*                argument, so Python raises TypeError there and every run *)
(*                ends before a job is submitted.                          *)
(*   Spec         solve_nl_file from line 286 on, with get_neos_config     *)
(*                applied to (odict, neos) as its definition at line 134   *)
(*                requires: the resolution, the document, the job          *)
(*                protocol of lines 294-341.                               *)
(*   SpecResolve  get_neos_config on every option string, stored           *)
(*                configuration and keyring of its bounded input sets, and *)
(*                the run up to the submit call.                           *)
(*   SpecLive     the job protocol of Spec with weak fairness of the run's *)
(*                steps.                                                   *)
(*   SpecDoc      neos_xml_string on model texts and option strings.       *)
(*   SpecParse    parse_neos_options on option strings, and on the strings *)
(*                written from the dicts it returns.                       *)
(*   SpecManage   non_mosel_call run by two processes, interleaved with a  *)
(*                solve-mode run, on one configuration file and keyring.   *)
(*                                                                         *)
(* Python values are modelled as follows.  A str is a TLA+ string, the     *)
(* value None is the string None below, a dict is a function whose DOMAIN  *)
(* is the set of keys present, an optional file is a sequence of length 0  *)
(* or 1.  A string that the code splits (the option string, a              *)
(* 'solver:input' catalog item, a path with suffixes) is the sequence of   *)
(* its pieces, separators included.                                        *)
(* A remote call of the XML-RPC proxy either returns a value drawn from a  *)
(* small set or raises; the service is not assumed to be well behaved.     *)
(***************************************************************************)
EXTENDS Integers, Sequences, FiniteSets, TLC

\* ------------------------------------------------------------------ bounds
\* polling iterations explored per run (the loops of the code are unbounded)
MaxPolls == 3
\* offsets the service may return from getIntermediateResults: 0..MaxOffset
MaxOffset == 2
\* pieces of the model text after its first byte
MaxModelLen == 3
\* pieces of an option string given to the parser alone
MaxOptionLen == 6
\* invocations of the configuration commands explored
MaxInvocations == 2

\* ------------------------------------------------------------ Python values
None == "<None>"
Absent == "<absent>"

\* d.get(k, default) of a dict
DictGet(d, k, default) == IF k \in DOMAIN d THEN d[k] ELSE default

Range(s) == {s[i] : i \in 1..Len(s)}

\* ---------------------------------------------------- parse_neos_options
\* An option string is the sequence of its pieces: " " (whitespace), "=", and
\* words, which hold neither.

\* str.lower() of a piece
Lower_SwapCase(piece) ==
  CASE piece = "K" -> "k"
    [] piece = "k" -> "K"
    [] OTHER       -> piece

Lower(piece) ==
  CASE piece = "PRIORITY" -> "priority"
    [] piece = "Solver"   -> "solver"
    [] piece = "SERVER"   -> "server"
    [] piece = "K"        -> "k"
    [] OTHER              -> piece

\* the str made of the pieces of s, in order
RECURSIVE Concat(_)
Concat(s) == IF s = << >> THEN "" ELSE Head(s) \o Concat(Tail(s))

\* str.strip() of a str given as its pieces
RECURSIVE Strip(_)
Strip(s) ==
  IF s = << >> THEN s
  ELSE IF Head(s) = " " THEN Strip(Tail(s))
  ELSE IF s[Len(s)] = " " THEN Strip(SubSeq(s, 1, Len(s) - 1))
  ELSE s

\* options_str.split(): the maximal runs of pieces other than whitespace
RECURSIVE SplitWhitespace(_, _)
SplitWhitespace(s, current) ==
  IF s = << >> THEN (IF current = << >> THEN << >> ELSE <<current>>)
  ELSE IF Head(s) = " "
    THEN (IF current = << >> THEN << >> ELSE <<current>>) \o SplitWhitespace(Tail(s), << >>)
  ELSE SplitWhitespace(Tail(s), Append(current, Head(s)))

\* position of the first "=" of o, 0 when it has none
FirstEq(o) ==
  IF \E i \in 1..Len(o) : o[i] = "=" THEN CHOOSE i \in 1..Len(o) :
       o[i] = "=" /\ \A j \in 1..(i - 1) : o[j] # "="
  ELSE 0

\* o.split('=', maxsplit=1)
SplitEq(o) ==
  IF FirstEq(o) = 0 THEN <<o>>
  ELSE <<SubSeq(o, 1, FirstEq(o) - 1), SubSeq(o, FirstEq(o) + 1, Len(o))>>

\* the (key, value) pairs of the comprehension of lines 126-130, in order, each
\* key and value as its pieces
OptionPieces(options_str_) ==
  LET tokens == SplitWhitespace(options_str_, << >>)
      kept == SelectSeq(tokens, LAMBDA o : Len(SplitEq(o)) = 2)
  IN [i \in 1..Len(kept) |->
        [key |-> [j \in 1..Len(Strip(SplitEq(kept[i])[1])) |->
                    Lower(Strip(SplitEq(kept[i])[1])[j])],
         val |-> Strip(SplitEq(kept[i])[2])]]

\* the pairs as strs
OptionPairs(options_str_) ==
  [i \in 1..Len(OptionPieces(options_str_)) |->
     [key |-> Concat(OptionPieces(options_str_)[i].key),
      val |-> Concat(OptionPieces(options_str_)[i].val)]]

\* parse_neos_options(options_str): the dict of the pairs, a later pair
\* replacing an earlier one with the same key
parse_neos_options(options_str_) ==
  LET pairs == OptionPairs(options_str_)
      LastOf(k) == CHOOSE i \in 1..Len(pairs) :
                     pairs[i].key = k /\ \A j \in (i + 1)..Len(pairs) : pairs[j].key # k
  IN [k \in {pairs[i].key : i \in 1..Len(pairs)} |-> pairs[LastOf(k)].val]

\* ------------------------------------------------------------ configuration
default_config ==
  [neos |-> [server |-> "https://neos-server.org:3333",
             category |-> "milp",
             solver |-> "FICO-Xpress",
             forbidden_solvers |-> <<"Gurobi">>],
   user |-> [email |-> "", user |-> "", keyring_id |-> "NEOS Server"]]

\* the configuration file after config_file_path(): created with the default
\* values when it does not exist
config_file_path_Reset(file) == <<default_config>>

config_file_path(file) == IF Len(file) = 0 THEN <<default_config>> ELSE file

\* get_config(): the content of the (then existing) configuration file
get_config(file) == config_file_path(file)[1]

\* line 100 of get_neos_api: server_uri or c_neos.get('server', None), with
\* server_uri = odict.get('server', None) (line 285); "" when neither is set
ServerUri(odict, config_) ==
  IF DictGet(odict, "server", "") # "" THEN odict["server"]
  ELSE DictGet(config_.neos, "server", "")

\* keyring.get_password(service, username) on a keyring kr, a set of
\* [service, username, password] entries with at most one per (service, username)
get_password(kr, service, username) ==
  LET hits == {e \in kr : e.service = service /\ e.username = username}
  IN IF hits = {} THEN None ELSE (CHOOSE e \in hits : TRUE).password

\* ------------------------------------------------------------------ catalog
\* neos.listCategories(): a dict name -> description
listCategories ==
  [c \in {"milp", "lp", "nco"} |-> "description"]

\* neos.listSolversInCategory(category): a list of 'solver:input' items
listSolversInCategory(category) ==
  CASE category = "milp" -> << <<"FICO-Xpress", ":", "NL">>, <<"CPLEX", ":", "NL">>,
                               <<"Gurobi", ":", "NL">>, <<"MOSEK", ":", "MPS">>,
                               <<"CPLEX", ":", "MPS">> >>
    [] category = "lp"   -> << <<"Gurobi", ":", "NL">>, <<"MOSEK", ":", "MPS">> >>
    [] category = "nco"  -> << <<"Ipopt", ":", "NL">>, <<"Gurobi", ":", "NL">> >>
    [] OTHER             -> << >>

\* s.split(':') of an item given as its pieces
SplitColon(s) == SelectSeq(s, LAMBDA t : t # ":")

\* lines 167-168: the solvers of the category that take 'NL' input, minus the
\* forbidden ones
CatSolversNL_KeepForbidden(cat_solvers_list, forbidden_solvers) ==
  {SplitColon(s)[1] : s \in {x \in Range(cat_solvers_list) : SplitColon(x)[2] = "NL"}}

CatSolversNL(cat_solvers_list, forbidden_solvers) ==
  {SplitColon(s)[1] : s \in {x \in Range(cat_solvers_list) : SplitColon(x)[2] = "NL"}}
    \ Range(forbidden_solvers)

\* ------------------------------------------------------- get_neos_config
NoConfig ==
  [category |-> None, solver |-> None, priority |-> None,
   email |-> None, user |-> None, pwd |-> None]

NoError == [type |-> None, msg |-> None]

\* lines 150-160
CategoryGiven(odict) == "category" \in DOMAIN odict

ResolveCategory(odict, c_neos) ==
  IF CategoryGiven(odict) THEN odict["category"] ELSE c_neos.category

CategoryRejected(odict) ==
  CategoryGiven(odict) /\ odict["category"] \notin DOMAIN listCategories

\* lines 163-174
SolverGiven(odict) == "solver" \in DOMAIN odict

ResolveSolver(odict, c_neos) ==
  IF SolverGiven(odict) THEN odict["solver"] ELSE c_neos.solver

SolverRejected(odict, c_neos) ==
  SolverGiven(odict)
    /\ odict["solver"] \notin
         CatSolversNL(listSolversInCategory(ResolveCategory(odict, c_neos)),
                      c_neos.forbidden_solvers)

\* line 182
ResolvePriority(odict) == DictGet(odict, "priority", "short")

\* line 185
ResolveEmail(odict, c_user) == DictGet(odict, "email", DictGet(c_user, "email", ""))

\* line 186
EmailMissing_Never(email) == FALSE

EmailMissing(email) == email = ""

\* line 189
ResolveUser(odict, c_user) == DictGet(odict, "user", DictGet(c_user, "user", ""))

\* lines 190-199
ResolvePwd(kr, c_user, user_) ==
  IF user_ # "" THEN get_password(kr, c_user.keyring_id, user_) ELSE None

\* get_neos_config(odict, neos) against the stored configuration and the keyring:
\* the dict it returns, or the exception it raises
get_neos_config(odict, config_, kr) ==
  LET c_neos == config_.neos
      c_user == config_.user
      email_ == ResolveEmail(odict, c_user)
      user_  == ResolveUser(odict, c_user)
  IN IF CategoryRejected(odict)
       THEN [raised |-> TRUE, config |-> NoConfig,
             error |-> [type |-> "ValueError", msg |-> "Unsupported problem category"]]
     ELSE IF SolverRejected(odict, c_neos)
       THEN [raised |-> TRUE, config |-> NoConfig,
             error |-> [type |-> "ValueError", msg |-> "Unsupported solver"]]
     ELSE IF EmailMissing(email_)
       THEN [raised |-> TRUE, config |-> NoConfig,
             error |-> [type |-> "Exception", msg |-> "NEOS requires email"]]
     ELSE [raised |-> FALSE, error |-> NoError,
           config |-> [category |-> ResolveCategory(odict, c_neos),
                       solver   |-> ResolveSolver(odict, c_neos),
                       priority |-> ResolvePriority(odict),
                       email    |-> email_,
                       user     |-> user_,
                       pwd      |-> ResolvePwd(kr, c_user, user_)]]

\* the remote calls get_neos_config makes, in order, until it returns or raises
ResolveCalls(odict, config_) ==
  (IF CategoryGiven(odict) THEN <<"listCategories">> ELSE << >>)
  \o (IF CategoryRejected(odict) THEN << >>
      ELSE (IF SolverGiven(odict) THEN <<"listSolversInCategory">> ELSE << >>)
           \o (IF SolverRejected(odict, config_.neos) THEN << >>
               ELSE <<"listAllSolvers">>))

\* --------------------------------------------------------- neos_xml_string
\* line 228
script_options == {"category", "solver", "priority", "email", "user"}

\* odict.items(): the keys in the insertion order of the dict, which a function
\* does not keep: one fixed order of the keys
DictKeys(d) ==
  CHOOSE s \in [1..Cardinality(DOMAIN d) -> DOMAIN d] :
    \A i, j \in 1..Cardinality(DOMAIN d) : i # j => s[i] # s[j]

\* line 229: the lines key=value of the options not meant for the script
neos_options(odict) ==
  LET kept == SelectSeq(DictKeys(odict), LAMBDA key : key \notin script_options)
  IN [i \in 1..Len(kept) |-> <<kept[i], "=", odict[kept[i]]>>]

\* line 230: '\n'.join(neos_options), as pieces
RECURSIVE JoinLines(_)
JoinLines(lines) ==
  IF lines = << >> THEN << >>
  ELSE IF Len(lines) = 1 THEN lines[1]
  ELSE lines[1] \o <<"\n">> \o JoinLines(Tail(lines))

\* lines 232-243: the f-string, as its pieces; the values are put in as they are
FormatDocument(odict, nl_mod_str_, config_) ==
  <<"<document>",
    "<category>", config_.category, "</category>",
    "<solver>", config_.solver, "</solver>",
    "<inputMethod>", "NL", "</inputMethod>",
    "<priority>", config_.priority, "</priority>",
    "<email>", config_.email, "</email>",
    "<model>", "<![CDATA[">> \o nl_mod_str_ \o <<"]]>", "</model>",
    "<options>", "<![CDATA[">> \o JoinLines(neos_options(odict)) \o <<"]]>", "</options>",
    "<comments>", "<![CDATA[", "]]>", "</comments>",
    "</document>">>

\* lines 211-243: the document is formatted into a local variable and the
\* function ends without a return statement, so the call evaluates to None
neos_xml_string(odict, nl_file_, config_) == None

\* ------------------------------------------------------------------- paths
\* nl_file.with_suffix('.sol') of a path given as the pieces of its name
\* between dots: the last suffix is replaced, one is added when there is none
with_suffix_Append(path, suffix) == path \o <<suffix>>

with_suffix(path, suffix) ==
  IF Len(path) > 1 THEN SubSeq(path, 1, Len(path) - 1) \o <<suffix>>
  ELSE path \o <<suffix>>

\* ------------------------------------------------------------ job protocol
Statuses == {"Waiting", "Running", "Done", "Unknown"}

\* what submitJob / authenticatedSubmitJob may return: (jobId, jobPassword);
\* with job id 0 the second element is the server's error message
SubmitResponses ==
  {[job_id |-> 0, job_pwd |-> "Error: XML is not valid"],
   [job_id |-> 0, job_pwd |-> "Error: too many jobs"],
   [job_id |-> 42, job_pwd |-> "pw42"]}

OutputFiles == {"sol-bytes-1", "sol-bytes-2"}

\* line 294
UseAuthentication_ByUser(config_) == config_.user # ""

UseAuthentication(config_) == config_.pwd # None

\* lines 296, 298: the submit call made for a resolved configuration
SubmitCall(config_, doc) ==
  IF UseAuthentication(config_)
    THEN [op |-> "authenticatedSubmitJob", args |-> <<doc, config_.user, config_.pwd>>]
    ELSE [op |-> "submitJob", args |-> <<doc>>]

\* line 299
SubmissionFailed_Never(id) == FALSE

SubmissionFailed(id) == id = 0

\* line 300: the message of the RuntimeError raised for job id 0
SubmissionFailureReason(id, pwd) == "NEOS job submission failed!"

\* line 304
StatusExpected_Any(st) == TRUE

StatusExpected(st) == st \in {"Waiting", "Running", "Done"}

\* line 306
IsShortPriority(config_) == config_.priority = "short"

\* lines 311, 323: the loop condition
LoopContinues_WhileWaiting(st) == st = "Waiting"

LoopContinues(st) == st # "Done"

\* line 309
InitialOffset == 0

\* line 315: the offset kept from the (msg, offset) pair the service returned
NextOffset_Keep(current, returned) == current

NextOffset(current, returned) == returned

\* where the run goes after a status was received: lines 306, 311, 323, 329
LoopHead_PollOn(st, config_) ==
  IF IsShortPriority(config_) THEN "intermediate" ELSE "long_status"

LoopHead(st, config_) ==
  IF ~LoopContinues(st) THEN "final_results"
  ELSE IF IsShortPriority(config_) THEN "intermediate"
  ELSE "long_status"

RemoteError(op) == [type |-> "RemoteError", msg |-> op]

Max(a, b) == IF a >= b THEN a ELSE b

VARIABLES
  pc,          \* position of the run
  id_char,     \* first byte of the model file
  options_str, \* the environment variable neos_options
  neos,        \* the server the proxy is connected to
  odict,       \* the option dict
  cfgFile,     \* the persisted configuration file: << >> or <<content>>
  keyring,     \* the secret store
  nl_file,     \* path of the model file
  config,      \* the dict get_neos_config returned
  neos_xml,    \* the submission document: what neos_xml_string returned
  nl_mod_str,  \* the text of the model file, as pieces
  document,    \* the local neos_xml of neos_xml_string: the formatted document
  calls,       \* the remote calls made so far, in order
  submitCall,  \* the submit call made, with its arguments
  job_id, job_pwd, status, offset, t_min,
  statuses,    \* the getJobStatus responses received so far, in order
  lastCursor,  \* cursor passed to the latest getIntermediateResults call
  maxCursor,   \* largest cursor passed to an earlier getIntermediateResults call
  lastReturned,     \* offset returned by the latest getIntermediateResults call
  serviceRegressed, \* the service has returned an offset below the cursor passed
  written,     \* the files written so far, in order
  err,         \* the exception that ended the run
  serialized,  \* an option string written from a parsed dict
  reparsed,    \* the dict parsed from it
  procs,       \* the invocations of the configuration commands, one per process
  started,     \* number of such invocations started so far
  writes       \* the writes of the configuration file by them, in order

vars == <<pc, id_char, options_str, neos, odict, cfgFile, keyring, nl_file, nl_mod_str,
          config, neos_xml, document, calls, submitCall,
          job_id, job_pwd, status, offset, t_min, statuses, lastCursor, maxCursor,
          lastReturned, serviceRegressed, written, err,
          serialized, reparsed, procs, started, writes>>

inputs == <<id_char, options_str, neos, odict, keyring, nl_file, nl_mod_str>>
parseVars == <<serialized, reparsed>>
manageVars == <<procs, started, writes>>
jobVars == <<job_id, job_pwd, status, offset, t_min, statuses, lastCursor, maxCursor,
             lastReturned, serviceRegressed>>

NoCall == [op |-> None, args |-> << >>]

\* the token key=value of an option string, none when the value is Absent
KeyValue(k, v) ==
  IF v = Absent THEN << >> ELSE IF v = "" THEN << <<k, "=">> >> ELSE << <<k, "=", v>> >>

\* the tokens separated by single spaces
RECURSIVE JoinSpace(_)
JoinSpace(tokens) ==
  IF tokens = << >> THEN << >>
  ELSE IF Len(tokens) = 1 THEN tokens[1]
  ELSE tokens[1] \o <<" ">> \o JoinSpace(Tail(tokens))

\* the option strings giving the keys the values of the sets (Absent: no token)
OptionStrings(Cs, Ss, Ps, Es, Us) ==
  {JoinSpace(KeyValue("category", c) \o KeyValue("solver", s) \o KeyValue("priority", p)
              \o KeyValue("email", e) \o KeyValue("user", u)) :
     c \in Cs, s \in Ss, p \in Ps, e \in Es, u \in Us}

StoredConfig(c, s, e, u) ==
  [default_config EXCEPT !.neos.category = c, !.neos.solver = s,
                         !.user.email = e, !.user.user = u]

KeyringEntry(u, p) == [service |-> "NEOS Server", username |-> u, password |-> p]

\* nothing was serialized or parsed again
NoParse == serialized = << >> /\ reparsed = << >>

\* the processes that run a configuration command
Procs == {"first", "second"}

NoArgs ==
  [info |-> FALSE, show_email |-> FALSE, email |-> None,
   show_user |-> FALSE, set_cred |-> FALSE, del_cred |-> FALSE]

NoStored == [neos |-> << >>, user |-> << >>]

\* a process that runs no command
IdleProc ==
  [pc |-> "idle", args |-> NoArgs, config |-> NoStored, loaded |-> NoStored,
   cred |-> None, save_config |-> FALSE, readAt |-> 0, exit |-> None]

NoManage ==
  /\ procs = [p \in Procs |-> IdleProc]
  /\ started = 0
  /\ writes = << >>

\* nothing of the job exists yet
NoJob ==
  /\ config = NoConfig
  /\ neos_xml = None
  /\ document = << >>
  /\ calls = << >>
  /\ submitCall = NoCall
  /\ job_id = -1 /\ job_pwd = None /\ status = None /\ offset = -1 /\ t_min = -1
  /\ statuses = << >>
  /\ lastCursor = -1 /\ maxCursor = -1
  /\ lastReturned = -1 /\ serviceRegressed = FALSE
  /\ written = << >>
  /\ err = NoError

\* the state of a run that has reached line 286: the model file was accepted,
\* the options are parsed, the server answered the ping
InitRun ==
  /\ pc = "resolve"
  /\ id_char = "g"
  /\ odict = parse_neos_options(options_str)
  /\ neos = ServerUri(odict, get_config(cfgFile))
  /\ config = NoConfig
  /\ neos_xml = None
  /\ document = << >>
  /\ calls = << >>
  /\ submitCall = NoCall
  /\ job_id = -1 /\ job_pwd = None /\ status = None /\ offset = -1 /\ t_min = -1
  /\ statuses = << >>
  /\ lastCursor = -1 /\ maxCursor = -1
  /\ lastReturned = -1 /\ serviceRegressed = FALSE
  /\ written = << >>
  /\ err = NoError
  /\ NoParse
  /\ NoManage

\* the runs of the job protocol: the default and two given priorities, a stored
\* user with a stored credential and an option user without one, a stored or an
\* option email or none
Init ==
  /\ options_str \in OptionStrings({Absent}, {Absent}, {Absent, "long", "urgent"},
                                    {Absent, "opt@example.org"}, {Absent, "bob"})
  /\ cfgFile \in {config_file_path(f) :
                    f \in {<< >>, <<StoredConfig("milp", "CPLEX", "me@example.org", "alice")>>}}
  /\ keyring = {KeyringEntry("alice", "alice-secret")}
  /\ nl_file \in {<<"model", "nl">>, <<"model">>}
  /\ nl_mod_str = <<"g", "3 1 1 0">>
  /\ InitRun

\* every option dict against every stored configuration and keyring
InitResolve ==
  /\ options_str \in OptionStrings({Absent, "milp", "lp", "nope"},
                                    {Absent, "CPLEX", "Gurobi", "MOSEK"},
                                    {Absent, "short", "long", "urgent"},
                                    {Absent, "", "opt@example.org"},
                                    {Absent, "", "bob"})
  /\ cfgFile \in {<< >>} \cup
       {<<StoredConfig(c, s, e, u)>> :
          c \in {"milp", "lp"}, s \in {"FICO-Xpress", "CPLEX"},
          e \in {"", "me@example.org"}, u \in {"", "alice"}}
  /\ keyring \in SUBSET {KeyringEntry("alice", "alice-secret"),
                         KeyringEntry("bob", "bob-secret")}
  /\ nl_file = <<"model", "nl">>
  /\ nl_mod_str = <<"g", "3 1 1 0">>
  /\ InitRun

\* ------------------------------------------------------------------ actions
\* an exception nothing catches: the run ends
Fail_Resubmit(e) == pc' = "submit" /\ err' = e

Fail(e) == pc' = "Failed" /\ err' = e

\* line 286 as the function is defined: get_neos_config(odict, neos). A remote
\* call of the catalog may raise, which ends the run.
Resolve ==
  /\ pc = "resolve"
  /\ cfgFile' = config_file_path(cfgFile)
  /\ LET stored == get_config(cfgFile)
         r == get_neos_config(odict, stored, keyring)
         rc == ResolveCalls(odict, stored)
     IN \/ /\ calls' = calls \o rc
           /\ config' = r.config
           /\ IF r.raised THEN Fail(r.error) ELSE pc' = "build" /\ err' = err
        \/ \E i \in 1..Len(rc) :
             /\ calls' = calls \o SubSeq(rc, 1, i)
             /\ config' = config
             /\ Fail(RemoteError(rc[i]))
  /\ UNCHANGED <<inputs, parseVars, manageVars, document, neos_xml, submitCall, jobVars, written>>

\* line 287
Build ==
  /\ pc = "build"
  /\ document' = FormatDocument(odict, nl_mod_str, config)
  /\ neos_xml' = neos_xml_string(odict, nl_file, config)
  /\ pc' = "submit"
  /\ UNCHANGED <<inputs, parseVars, manageVars, cfgFile, config, calls, submitCall, jobVars, written, err>>

\* lines 294-301
Submit ==
  /\ pc = "submit"
  /\ LET call == SubmitCall(config, neos_xml)
     IN /\ submitCall' = call
        /\ calls' = Append(calls, call.op)
        /\ \/ \E r \in SubmitResponses :
                /\ job_id' = r.job_id
                /\ job_pwd' = r.job_pwd
                /\ IF SubmissionFailed(r.job_id)
                     THEN Fail([type |-> "RuntimeError",
                                msg |-> SubmissionFailureReason(r.job_id, r.job_pwd)])
                     ELSE pc' = "status" /\ err' = err
           \/ /\ Fail(RemoteError(call.op))
              /\ UNCHANGED <<job_id, job_pwd>>
  /\ UNCHANGED <<inputs, parseVars, manageVars, document, cfgFile, config, neos_xml, status, offset, t_min, statuses,
                 lastCursor, maxCursor, lastReturned, serviceRegressed, written>>

\* lines 303-310 and 319-322: the first status, its check, the set-up of the loop
InitialStatus ==
  /\ pc = "status"
  /\ calls' = Append(calls, "getJobStatus")
  /\ \/ \E st \in Statuses :
          /\ status' = st
          /\ statuses' = Append(statuses, st)
          /\ IF ~StatusExpected(st)
               THEN /\ Fail([type |-> "AssertionError", msg |-> "check status"])
                    /\ UNCHANGED <<offset, t_min>>
               ELSE /\ pc' = LoopHead(st, config)
                    /\ err' = err
                    /\ IF IsShortPriority(config)
                         THEN offset' = InitialOffset /\ t_min' = t_min
                         ELSE t_min' = 0 /\ offset' = offset
     \/ /\ Fail(RemoteError("getJobStatus"))
        /\ UNCHANGED <<status, statuses, offset, t_min>>
  /\ UNCHANGED <<inputs, parseVars, manageVars, document, cfgFile, config, neos_xml, submitCall, job_id, job_pwd,
                 lastCursor, maxCursor, lastReturned, serviceRegressed, written>>

\* lines 312-316: one fetch of the intermediate results at the current offset
GetIntermediateResults ==
  /\ pc = "intermediate"
  /\ Len(statuses) <= MaxPolls
  /\ calls' = Append(calls, "getIntermediateResults")
  /\ lastCursor' = offset
  /\ maxCursor' = Max(maxCursor, lastCursor)
  /\ \/ \E returned \in 0..MaxOffset :
          /\ offset' = NextOffset(offset, returned)
          /\ lastReturned' = returned
          /\ serviceRegressed' = (serviceRegressed \/ returned < offset)
          /\ pc' = "short_status"
          /\ err' = err
     \/ /\ Fail(RemoteError("getIntermediateResults"))
        /\ UNCHANGED <<offset, lastReturned, serviceRegressed>>
  /\ UNCHANGED <<inputs, parseVars, manageVars, document, cfgFile, config, neos_xml, submitCall, job_id, job_pwd,
                 status, t_min, statuses, written>>

\* line 317
ShortGetJobStatus ==
  /\ pc = "short_status"
  /\ calls' = Append(calls, "getJobStatus")
  /\ \/ \E st \in Statuses :
          /\ status' = st
          /\ statuses' = Append(statuses, st)
          /\ pc' = LoopHead(st, config)
          /\ err' = err
     \/ /\ Fail(RemoteError("getJobStatus"))
        /\ UNCHANGED <<status, statuses>>
  /\ UNCHANGED <<inputs, parseVars, manageVars, document, cfgFile, config, neos_xml, submitCall, job_id, job_pwd,
                 offset, t_min, lastCursor, maxCursor, lastReturned, serviceRegressed,
                 written>>

\* lines 324-327
LongGetJobStatus ==
  /\ pc = "long_status"
  /\ Len(statuses) <= MaxPolls
  /\ t_min' = t_min + 1
  /\ calls' = Append(calls, "getJobStatus")
  /\ \/ \E st \in Statuses :
          /\ status' = st
          /\ statuses' = Append(statuses, st)
          /\ pc' = LoopHead(st, config)
          /\ err' = err
     \/ /\ Fail(RemoteError("getJobStatus"))
        /\ UNCHANGED <<status, statuses>>
  /\ UNCHANGED <<inputs, parseVars, manageVars, document, cfgFile, config, neos_xml, submitCall, job_id, job_pwd,
                 offset, lastCursor, maxCursor, lastReturned, serviceRegressed, written>>

\* lines 329-330
GetFinalResults ==
  /\ pc = "final_results"
  /\ calls' = Append(calls, "getFinalResults")
  /\ \/ pc' = "completion_code" /\ err' = err
     \/ Fail(RemoteError("getFinalResults"))
  /\ UNCHANGED <<inputs, parseVars, manageVars, document, cfgFile, config, neos_xml, submitCall, jobVars, written>>

\* line 332
GetCompletionCode ==
  /\ pc = "completion_code"
  /\ calls' = Append(calls, "getCompletionCode")
  /\ \/ pc' = "output_file" /\ err' = err
     \/ Fail(RemoteError("getCompletionCode"))
  /\ UNCHANGED <<inputs, parseVars, manageVars, document, cfgFile, config, neos_xml, submitCall, jobVars, written>>

\* lines 338-341
GetOutputFile ==
  /\ pc = "output_file"
  /\ calls' = Append(calls, "getOutputFile")
  /\ \/ \E data \in OutputFiles :
          /\ written' = Append(written, [path |-> with_suffix(nl_file, "sol"),
                                         data |-> data, returned |-> data])
          /\ pc' = "Finished"
          /\ err' = err
     \/ /\ Fail(RemoteError("getOutputFile"))
        /\ written' = written
  /\ UNCHANGED <<inputs, parseVars, manageVars, document, cfgFile, config, neos_xml, submitCall, jobVars>>

Next ==
  \/ Resolve
  \/ Build
  \/ Submit
  \/ InitialStatus
  \/ GetIntermediateResults
  \/ ShortGetJobStatus
  \/ LongGetJobStatus
  \/ GetFinalResults
  \/ GetCompletionCode
  \/ GetOutputFile

Spec == Init /\ [][Next]_vars

\* the runs of the job protocol in which every step the run is at is taken:
\* the program is sequential and, a remote call having returned or raised,
\* goes on with its next statement
InitLive ==
  /\ options_str \in OptionStrings({Absent}, {Absent}, {Absent, "long"}, {Absent}, {Absent})
  /\ cfgFile = <<StoredConfig("milp", "CPLEX", "me@example.org", "alice")>>
  /\ keyring = {KeyringEntry("alice", "alice-secret")}
  /\ nl_file = <<"model", "nl">>
  /\ nl_mod_str = <<"g", "3 1 1 0">>
  /\ InitRun

SpecLive == InitLive /\ [][Next]_vars /\ WF_vars(Next)

\* the resolution and what the run does with its result, up to the submit call
NextResolve ==
  \/ Resolve
  \/ Build
  \/ Submit

SpecResolve == InitResolve /\ [][NextResolve]_vars

\* ------------------------------------------------------ the payload builder
\* the pieces a model text is made of after its first byte: a plain piece and
\* the three that matter inside an XML document
ModelPieces == {"x", "<", "&", "]]>"}

ModelTexts == UNION {[1..k -> ModelPieces] : k \in 0..MaxModelLen}

\* option strings with options for the solver and options for the script
DocOptionStrings ==
  {<< >>,
   <<"timelimit", "=", "60">>,
   <<"SERVER", "=", "https://alt.example.org", " ", "timelimit", "=", "60">>,
   <<"category", "=", "milp", " ", "threads", "=", "4", " ", "Solver", "=", "CPLEX", " ",
     "PRIORITY", "=", "long", " ", "email", "=", "opt@example.org", " ",
     "user", "=", "bob", " ", "timelimit", "=", "a", "=", "b">>}

\* neos_xml_string on every model text and option string of the bounded sets,
\* with the configuration get_neos_config resolves
InitDoc ==
  /\ options_str \in DocOptionStrings
  /\ cfgFile = <<StoredConfig("milp", "CPLEX", "me@example.org", "alice")>>
  /\ keyring = {KeyringEntry("alice", "alice-secret")}
  /\ nl_file = <<"model", "nl">>
  /\ nl_mod_str \in {<<"g">> \o t : t \in ModelTexts}
  /\ InitRun

NextDoc ==
  \/ Resolve
  \/ Build

SpecDoc == InitDoc /\ [][NextDoc]_vars

\* ------------------------------------------------------- the parser alone
\* the pieces of the option strings given to the parser: whitespace, the
\* separator, a key in both cases, a value
ParsePieces == {" ", "=", "k", "K", "v"}

ParseStrings == UNION {[1..n -> ParsePieces] : n \in 0..MaxOptionLen}

\* the dict of lines 126-130 with keys and values as their pieces
ParsedPieces(options_str_) ==
  LET pairs == OptionPieces(options_str_)
      LastOf(k) == CHOOSE i \in 1..Len(pairs) :
                     pairs[i].key = k /\ \A j \in (i + 1)..Len(pairs) : pairs[j].key # k
  IN [k \in {pairs[i].key : i \in 1..Len(pairs)} |-> pairs[LastOf(k)].val]

\* the dict with keys and values as strs
StrDict(m) ==
  [k \in {Concat(kp) : kp \in DOMAIN m} |->
     Concat(m[CHOOSE kp \in DOMAIN m : Concat(kp) = k])]

\* the orders in which the keys of a set can be written
Orders(S) ==
  {o \in [1..Cardinality(S) -> S] : \A i, j \in 1..Cardinality(S) : i # j => o[i] # o[j]}

\* the option string key=value key=value ... of a dict, its keys in the order
Serialize(m, order) ==
  JoinSpace([i \in 1..Len(order) |-> order[i] \o <<"=">> \o m[order[i]]])

InitParse ==
  /\ pc = "parse"
  /\ id_char = "g"
  /\ options_str \in ParseStrings
  /\ odict = parse_neos_options(<< >>)
  /\ neos = None
  /\ cfgFile = << >>
  /\ keyring = {}
  /\ nl_file = <<"model", "nl">>
  /\ nl_mod_str = <<"g", "3 1 1 0">>
  /\ NoJob
  /\ NoParse
  /\ NoManage

\* line 281 alone
ParseString ==
  /\ pc = "parse"
  /\ odict' = parse_neos_options(options_str)
  /\ pc' = "serialize"
  /\ UNCHANGED <<id_char, options_str, neos, keyring, nl_file, nl_mod_str, cfgFile, config,
                 neos_xml, document, calls, submitCall, jobVars, written, err,
                 parseVars, manageVars>>

\* the parsed dict written as an option string, in some order of its keys, and
\* line 281 on that string
SerializeAndParse ==
  /\ pc = "serialize"
  /\ \E order \in Orders(DOMAIN ParsedPieces(options_str)) :
       /\ serialized' = Serialize(ParsedPieces(options_str), order)
       /\ reparsed' = parse_neos_options(serialized')
  /\ pc' = "reparsed"
  /\ UNCHANGED <<inputs, cfgFile, config, neos_xml, document, calls, submitCall, jobVars,
                 written, err, manageVars>>

NextParse ==
  \/ ParseString
  \/ SerializeAndParse

SpecParse == InitParse /\ [][NextParse]_vars

\* ------------------------------------------------ solve_nl_file as written
\* line 134: the parameters of get_neos_config, none with a default
get_neos_config_params == <<"odict", "neos">>

\* line 286: the arguments of the call get_neos_config(neos)
get_neos_config_args == <<"neos">>

\* Python binds positional arguments to parameters in order and raises
\* TypeError when a parameter without default is left unbound
MissingArgument(params, args) == Len(args) < Len(params)

\* the option strings of the runs
RunOptionStrings ==
  {<< >>,
   <<"category", "=", "lp", " ", "Solver", "=", "CPLEX">>,
   <<"SERVER", "=", "https://alt.example.org">>,
   <<"priority", "=", "long", " ", "verbose", " ", "email", "=", "opt@example.org">>,
   <<"user", "=", "bob", " ", " ", "user", "=", "alice">>,
   <<"timelimit", "=", "a", "=", "b", " ", "email", "=">>}

InitSolve ==
  /\ pc = "start"
  /\ id_char \in {"missing", "b", "g", "x"}
  /\ options_str \in RunOptionStrings
  /\ odict = parse_neos_options(<< >>)
  /\ neos = None
  /\ cfgFile \in {<< >>, <<StoredConfig("milp", "FICO-Xpress", "me@example.org", "alice")>>}
  /\ keyring \in {{}, {KeyringEntry("alice", "alice-secret")}}
  /\ nl_file \in {<<"model", "nl">>, <<"model">>}
  /\ nl_mod_str = (IF id_char = "missing" THEN << >> ELSE <<id_char, "3 1 1 0">>)
  /\ config = NoConfig
  /\ neos_xml = None
  /\ document = << >>
  /\ calls = << >>
  /\ submitCall = NoCall
  /\ job_id = -1 /\ job_pwd = None /\ status = None /\ offset = -1 /\ t_min = -1
  /\ statuses = << >>
  /\ lastCursor = -1 /\ maxCursor = -1
  /\ lastReturned = -1 /\ serviceRegressed = FALSE
  /\ written = << >>
  /\ err = NoError
  /\ NoParse
  /\ NoManage

\* lines 266-267: the first byte that makes the run stop, 'b' of a binary file
IsBinaryFormat_NotText(c) == c # "g"

IsBinaryFormat(c) == c = "b"

\* lines 259-275; id_char "missing" stands for a path that is no file
CheckNlFile ==
  /\ pc = "start"
  /\ IF id_char = "missing"
       THEN Fail([type |-> "FileNotFoundError", msg |-> "NL file not found"])
     ELSE IF IsBinaryFormat(id_char)
       THEN Fail([type |-> "ValueError", msg |-> "NL file is in binary format"])
     ELSE pc' = "options" /\ err' = err
  /\ UNCHANGED <<inputs, parseVars, manageVars, document, cfgFile, config, neos_xml, calls, submitCall, jobVars, written>>

\* lines 279-282
ParseOptions ==
  /\ pc = "options"
  /\ odict' = parse_neos_options(options_str)
  /\ pc' = "connect"
  /\ UNCHANGED <<parseVars, manageVars,
                 id_char, options_str, neos, keyring, nl_file, nl_mod_str, cfgFile, config,
                 neos_xml, document,
                 calls, submitCall, jobVars, written, err>>

\* line 285, get_neos_api (lines 96-110): the stored configuration is read, which
\* creates the file when there is none, and the server is pinged
GetNeosApi ==
  /\ pc = "connect"
  /\ cfgFile' = config_file_path(cfgFile)
  /\ LET server == ServerUri(odict, get_config(cfgFile))
     IN IF server = ""
          THEN /\ Fail([type |-> "SystemExit", msg |-> "NEOS server URI not provided!"])
               /\ UNCHANGED <<neos, calls>>
        ELSE /\ calls' = Append(calls, "ping")
             /\ \/ neos' = server /\ pc' = "config" /\ err' = err
                \/ /\ Fail([type |-> "SystemExit", msg |-> "Could not reach the NEOS server"])
                   /\ neos' = neos
  /\ UNCHANGED <<parseVars, manageVars,
                 id_char, options_str, odict, keyring, nl_file, nl_mod_str, config, neos_xml,
                 document,
                 submitCall, jobVars, written>>

\* line 286: config = get_neos_config(neos)
CallGetNeosConfig ==
  /\ pc = "config"
  /\ IF MissingArgument(get_neos_config_params, get_neos_config_args)
       THEN /\ Fail([type |-> "TypeError",
                     msg |-> "get_neos_config() missing 1 required positional argument"])
            /\ UNCHANGED <<config, calls>>
     ELSE LET r == get_neos_config(odict, get_config(cfgFile), keyring)
          IN /\ calls' = calls \o ResolveCalls(odict, get_config(cfgFile))
             /\ config' = r.config
             /\ IF r.raised THEN Fail(r.error) ELSE pc' = "build" /\ err' = err
  /\ UNCHANGED <<inputs, parseVars, manageVars, document, cfgFile, neos_xml, submitCall, jobVars, written>>

NextSolve ==
  \/ CheckNlFile
  \/ ParseOptions
  \/ GetNeosApi
  \/ CallGetNeosConfig

SpecRun == InitSolve /\ [][NextSolve]_vars

\* ------------------------------------------------------------ non_mosel_call
\* Each process runs invocations of the command line without a model file.
\* The configuration file and the keyring are shared by the processes and by
\* a solve-mode run; nothing in the code locks either.

\* the command lines explored: the listings, the two show options, a new email,
\* new credentials, the deletion of the credentials, and an email with either
Commands ==
  {[NoArgs EXCEPT !.info = TRUE],
   [NoArgs EXCEPT !.show_email = TRUE, !.show_user = TRUE],
   [NoArgs EXCEPT !.email = "new@example.org"],
   [NoArgs EXCEPT !.set_cred = TRUE],
   [NoArgs EXCEPT !.del_cred = TRUE],
   [NoArgs EXCEPT !.email = "new@example.org", !.set_cred = TRUE],
   [NoArgs EXCEPT !.email = "new@example.org", !.del_cred = TRUE]}

\* what the user types at the prompts of lines 415 and 434, 440 and 442
Answers == {"y", "n"}
Accepting == {"", "y", "Y", "j", "J"}
TypedUser == "carol"
TypedPassword == "carol-secret"

\* lines 359-363
IsInfo(args) == args.info

\* keyring.get_credential(service, username): the user name of the credential
\* stored for it, None when there is none
get_credential(kr, service, username) ==
  IF get_password(kr, service, username) # None THEN username ELSE None

\* keyring.delete_password(service, username)
delete_password(kr, service, username) ==
  {e \in kr : ~(e.service = service /\ e.username = username)}

\* keyring.set_password(service, username, password)
set_password(kr, service, username, password) ==
  delete_password(kr, service, username)
    \cup {[service |-> service, username |-> username, password |-> password]}

\* lines 456-458: json.dump(config, f) writes the whole dict the invocation
\* holds, whatever the file holds by then
SavedContent_UserOnly(local, loaded, current) == [neos |-> << >>, user |-> local.user]

SavedContent_Merge(local, loaded, current) ==
  [current EXCEPT
     !.user.email = IF local.user.email # loaded.user.email THEN local.user.email ELSE @,
     !.user.user  = IF local.user.user # loaded.user.user THEN local.user.user ELSE @]

SavedContent(local, loaded, current) == local

InitManage ==
  /\ pc = "start"
  /\ id_char = "g"
  /\ options_str = <<"SERVER", "=", "https://alt.example.org">>
  /\ odict = parse_neos_options(<< >>)
  /\ neos = None
  /\ cfgFile \in {<< >>, <<StoredConfig("milp", "CPLEX", "me@example.org", "alice")>>}
  /\ keyring = {KeyringEntry("alice", "alice-secret")}
  /\ nl_file = <<"model", "nl">>
  /\ nl_mod_str = <<"g", "3 1 1 0">>
  /\ NoJob
  /\ NoParse
  /\ NoManage

solveVars == <<pc, id_char, options_str, neos, odict, nl_file, nl_mod_str, config, neos_xml,
               document, calls, submitCall, jobVars, written, err, parseVars>>

\* line 353: an invocation starts and reads the configuration, which creates
\* the file when there is none
LoadConfig(p) ==
  /\ procs[p].pc \in {"idle", "done"}
  /\ started < MaxInvocations
  /\ started' = started + 1
  /\ cfgFile' = config_file_path(cfgFile)
  /\ \E args \in Commands :
       procs' = [procs EXCEPT ![p] =
                   [IdleProc EXCEPT !.pc = IF IsInfo(args) THEN "info" ELSE "credential",
                                    !.args = args,
                                    !.config = get_config(cfgFile),
                                    !.loaded = get_config(cfgFile),
                                    !.readAt = Len(writes)]]
  /\ UNCHANGED <<solveVars, keyring, writes>>

\* an invocation that is over, with the way it ended
Ended(code) == [IdleProc EXCEPT !.pc = "done", !.exit = code]

\* lines 363-392: the listings; get_neos_api reads the configuration again and
\* pings the server, then come the two catalog calls and sys.exit(0)
NeosInfo(p) ==
  /\ procs[p].pc = "info"
  /\ cfgFile' = config_file_path(cfgFile)
  /\ \E code \in {"SystemExit(0)", "SystemExit(1)", "RemoteError"} :
       procs' = [procs EXCEPT ![p] = Ended(code)]
  /\ UNCHANGED <<solveVars, keyring, started, writes>>

\* lines 397-402
LookupCredential(p) ==
  /\ procs[p].pc = "credential"
  /\ LET c_user == procs[p].config.user
         user == DictGet(c_user, "user", "")
     IN procs' = [procs EXCEPT
                    ![p].pc = "update",
                    ![p].cred = IF user # "" THEN get_credential(keyring, c_user.keyring_id, user)
                                ELSE None]
  /\ UNCHANGED <<solveVars, cfgFile, keyring, started, writes>>

\* lines 405-423: the config after the email options, and whether it is to be saved
EmailUpdate(args, c, ans) ==
  LET email == DictGet(c.user, "email", "")
      update == IF email # "" THEN (args.email # email /\ ans \in Accepting) ELSE TRUE
  IN IF ~args.show_email /\ args.email # None /\ update
       THEN [config |-> [c EXCEPT !.user.email = args.email], save_config |-> TRUE]
       ELSE [config |-> c, save_config |-> FALSE]

\* the invocation after lines 404-454 when the credentials are left alone
AfterUpdate(r, e) ==
  IF e.save_config
    THEN [r EXCEPT !.config = e.config, !.save_config = TRUE, !.pc = "save"]
    ELSE Ended("return")

\* lines 404-454: the email options, then the credential options
Update(p) ==
  /\ procs[p].pc = "update"
  /\ \E ans1 \in Answers, ans2 \in Answers :
       LET r == procs[p]
           args == r.args
           e == EmailUpdate(args, r.config, ans1)
           id == r.config.user.keyring_id
           stored == r.cred # None /\ get_password(keyring, id, r.cred) # None
       IN IF args.show_user \/ ~(args.set_cred \/ args.del_cred)
            THEN /\ procs' = [procs EXCEPT ![p] = AfterUpdate(r, e)]
                 /\ keyring' = keyring
          ELSE IF args.set_cred
            THEN IF r.cred # None /\ ans2 \notin Accepting
                   THEN /\ procs' = [procs EXCEPT ![p] = AfterUpdate(r, e)]
                        /\ keyring' = keyring
                 ELSE IF r.cred # None /\ ~stored
                   THEN /\ procs' = [procs EXCEPT ![p] = Ended("PasswordDeleteError")]
                        /\ keyring' = keyring
                 ELSE /\ procs' = [procs EXCEPT
                                     ![p].config = [e.config EXCEPT !.user.user = TypedUser],
                                     ![p].save_config = TRUE,
                                     ![p].pc = "save"]
                      /\ keyring' = set_password(
                                       IF r.cred # None THEN delete_password(keyring, id, r.cred)
                                       ELSE keyring,
                                       id, TypedUser, TypedPassword)
          ELSE IF r.cred = None
            THEN /\ procs' = [procs EXCEPT ![p] = Ended("SystemExit(1)")]
                 /\ keyring' = keyring
          ELSE IF ~stored
            THEN /\ procs' = [procs EXCEPT ![p] = Ended("PasswordDeleteError")]
                 /\ keyring' = keyring
          ELSE /\ procs' = [procs EXCEPT
                              ![p].config = [e.config EXCEPT !.user.user = ""],
                              ![p].save_config = TRUE,
                              ![p].pc = "save"]
               /\ keyring' = delete_password(keyring, id, r.cred)
  /\ UNCHANGED <<solveVars, cfgFile, started, writes>>

\* lines 456-458
SaveConfig(p) ==
  /\ procs[p].pc = "save"
  /\ LET content == SavedContent(procs[p].config, procs[p].loaded,
                                 config_file_path(cfgFile)[1])
     IN /\ cfgFile' = <<content>>
        /\ writes' = Append(writes, [proc |-> p, args |-> procs[p].args,
                                      readAt |-> procs[p].readAt,
                                      loaded |-> procs[p].loaded,
                                      content |-> content])
  /\ procs' = [procs EXCEPT ![p] = Ended("return")]
  /\ UNCHANGED <<solveVars, keyring, started>>

NextManage ==
  \/ NextSolve
  \/ \E p \in Procs :
       \/ LoadConfig(p)
       \/ NeosInfo(p)
       \/ LookupCredential(p)
       \/ Update(p)
       \/ SaveConfig(p)

SpecManage == InitManage /\ [][NextManage]_vars

\* ------------------------------------------------------------------ claims
SubmitOps == {"submitJob", "authenticatedSubmitJob"}
PollOps == {"getJobStatus", "getIntermediateResults"}
FinalOps == {"getFinalResults", "getCompletionCode", "getOutputFile"}
FinalStages == {"final_results", "completion_code", "output_file", "Finished"}

Last(s) == s[Len(s)]
CallsIn(ops) == SelectSeq(calls, LAMBDA c : c \in ops)
Submitted == submitCall # NoCall
RemoteFailed == err.type = "RemoteError"

\* C1: once the submit call has returned job id 0 the run is Failed for good: the
\* submit call is the last remote call made, no status, intermediate or final
\* call was made, no file was written and no step of the run is enabled.
C1_JobIdZeroIsTerminal ==
  (Submitted /\ job_id = 0) =>
    /\ pc = "Failed"
    /\ Last(calls) \in SubmitOps
    /\ CallsIn(PollOps \cup FinalOps) = << >>
    /\ written = << >>
    /\ ~ENABLED Next

C1_Witness ==
  /\ Submitted /\ job_id = 0
  /\ pc = "Failed" /\ err.type = "RuntimeError"

\* C2: when the submit call returned job id 0, the reason of the failure the
\* client reports is the message the server returned as second element.
C2_ReasonIsServerMessage ==
  (Submitted /\ job_id = 0 /\ pc = "Failed" /\ ~RemoteFailed) => err.msg = job_pwd

\* k rounds of the short-priority loop after the first status: one
\* getIntermediateResults call, then one getJobStatus call, per round
RECURSIVE ShortPolls(_)
ShortPolls(k) ==
  IF k = 0 THEN <<"getJobStatus">>
  ELSE ShortPolls(k - 1) \o <<"getIntermediateResults", "getJobStatus">>

\* C3: in a short-priority run whose first status was an expected one, the loop
\* ends at the first Done and at no other response; when the responses are k
\* non-Done values followed by Done, the status and intermediate calls made are
\* the first getJobStatus followed by exactly k rounds of getIntermediateResults,
\* getJobStatus, all of them before any finalize call; Waiting, Running, Running,
\* Done gives three rounds.
C3_ShortPollingIterations ==
  (IsShortPriority(config) /\ statuses # << >> /\ StatusExpected(statuses[1])
     /\ ~RemoteFailed) =>
    LET k == Len(statuses) - 1
    IN /\ \A i \in 1..k : statuses[i] # "Done"
       /\ (pc \in FinalStages) <=> (Last(statuses) = "Done")
       /\ pc = "short_status" => CallsIn(PollOps) = ShortPolls(k) \o <<"getIntermediateResults">>
       /\ pc # "short_status" => CallsIn(PollOps) = ShortPolls(k)
       /\ \A i, j \in 1..Len(calls) :
            (calls[i] \in PollOps /\ calls[j] \in FinalOps) => i < j
       /\ statuses = <<"Waiting", "Running", "Running", "Done">> =>
            Len(CallsIn({"getIntermediateResults"})) = 3

C3_Witness ==
  /\ IsShortPriority(config)
  /\ statuses = <<"Waiting", "Running", "Running", "Done">>
  /\ pc = "final_results"
  /\ Len(CallsIn({"getIntermediateResults"})) = 3

\* C4 (as claimed): the cursor passed to a getIntermediateResults call is never
\* below a cursor passed to an earlier call of the job.
C4_CursorNeverDecreases == lastCursor >= maxCursor

\* C4 (amended): the first getIntermediateResults call is passed cursor 0 and
\* every later one exactly the offset the previous call returned; the cursor
\* passed is never below an earlier one as long as the service has not returned
\* an offset below the cursor it was given.
C4_CursorFollowsService ==
  /\ (pc = "intermediate" /\ lastCursor = -1) => offset = 0
  /\ (lastCursor # -1 /\ maxCursor = -1) => lastCursor = 0
  /\ lastReturned # -1 => offset = lastReturned
  /\ ~serviceRegressed => lastCursor >= maxCursor

C4_Witness ==
  /\ serviceRegressed
  /\ lastCursor < maxCursor
  /\ pc = "short_status"

\* C5: with a non-zero job id, finalize calls are made only once Done was
\* observed, after it no status or intermediate call is made (a first status
\* Done gives no polling round at all), the finalize calls are getFinalResults,
\* getCompletionCode, getOutputFile in that order, each once, and the finished
\* run has written exactly the bytes returned by getOutputFile to the path of
\* the model file with its suffix replaced by sol.
C5_FinalizeOnceAfterDone ==
  /\ CallsIn(FinalOps) # << >> => (job_id # 0 /\ statuses # << >> /\ Last(statuses) = "Done")
  /\ (statuses # << >> /\ Last(statuses) = "Done") =>
       /\ pc \in FinalStages \cup {"Failed"}
       /\ Len(CallsIn({"getJobStatus"})) = Len(statuses)
       /\ Len(statuses) = 1 => CallsIn({"getIntermediateResults"}) = << >>
       /\ \A i \in 1..Len(statuses) - 1 : statuses[i] # "Done"
       /\ \A i, j \in 1..Len(calls) :
            (calls[i] \in PollOps /\ calls[j] \in FinalOps) => i < j
  /\ \E n \in 0..3 :
       CallsIn(FinalOps) =
         SubSeq(<<"getFinalResults", "getCompletionCode", "getOutputFile">>, 1, n)
  /\ pc # "Finished" => written = << >>
  /\ pc = "Finished" =>
       /\ CallsIn(FinalOps) = <<"getFinalResults", "getCompletionCode", "getOutputFile">>
       /\ Last(calls) = "getOutputFile"
       /\ Len(written) = 1
       /\ written[1].data = written[1].returned
       /\ written[1].path = <<"model", "sol">>

C5_Witness ==
  /\ pc = "Finished"
  /\ job_id = 42
  /\ statuses = <<"Done">>
  /\ nl_file = <<"model", "nl">>
  /\ written = <<[path |-> <<"model", "sol">>, data |-> "sol-bytes-2",
                  returned |-> "sol-bytes-2"]>>

\* C6 (as claimed): once a getJobStatus response outside Waiting, Running, Done
\* was received, at the start or inside a polling loop, the run has aborted
\* with the failed status check and wrote nothing.
C6_AnyUnexpectedStatusAborts ==
  (\E i \in 1..Len(statuses) : ~(statuses[i] \in {"Waiting", "Running", "Done"})) =>
    /\ pc = "Failed"
    /\ written = << >>

\* C6 (amended): a first status outside Waiting, Running, Done ends the run with
\* the failed assertion, with no further remote call and no file written; a
\* status outside that set received inside a polling loop is not checked: the
\* run goes on as for any status other than Done, to the next round of its loop.
C6_OnlyFirstStatusIsChecked ==
  /\ (statuses # << >> /\ ~(statuses[1] \in {"Waiting", "Running", "Done"})) =>
       /\ pc = "Failed"
       /\ err.type = "AssertionError"
       /\ Len(statuses) = 1
       /\ Last(calls) = "getJobStatus"
       /\ CallsIn({"getIntermediateResults"} \cup FinalOps) = << >>
       /\ written = << >>
  /\ (Len(statuses) > 1 /\ ~(Last(statuses) \in {"Waiting", "Running", "Done"})
        /\ Last(calls) = "getJobStatus" /\ ~RemoteFailed) =>
       /\ err = NoError
       /\ pc = IF config.priority = "short" THEN "intermediate" ELSE "long_status"

C6_Witness ==
  /\ statuses = <<"Unknown">>
  /\ pc = "Failed"
  /\ err.type = "AssertionError"

\* C7: a resolved configuration holds a password only if its user name is not
\* empty and the keyring stores that password for it; the submit call is
\* authenticatedSubmitJob(document, user, password) exactly when a password is
\* held and submitJob(document) otherwise; and a user name without stored
\* credential does not make the resolution fail.
C7_PasswordAndSubmitCall ==
  /\ (config # NoConfig /\ config.pwd # None) =>
       /\ config.user # ""
       /\ KeyringEntry(config.user, config.pwd) \in keyring
  /\ Submitted =>
       /\ config # NoConfig
       /\ submitCall = IF config.pwd # None
                         THEN [op |-> "authenticatedSubmitJob",
                               args |-> <<neos_xml, config.user, config.pwd>>]
                         ELSE [op |-> "submitJob", args |-> <<neos_xml>>]
  /\ (pc = "Failed" /\ ~Submitted /\ ~RemoteFailed) =>
       DictGet(odict, "email", get_config(cfgFile).user.email) = ""

C7_Witness ==
  /\ Submitted
  /\ config.user = "bob" /\ config.pwd = None
  /\ submitCall.op = "submitJob"
  /\ pc = "status"

\* the stored configuration the resolution reads (the default one when no file
\* exists yet)
Stored == IF cfgFile = << >> THEN default_config ELSE cfgFile[1]
Resolved == pc # "resolve" /\ config # NoConfig

\* C8: the email looked up is the option's when the option is given, else the
\* stored one; when it is empty the resolution fails and no submit call is made,
\* and a configuration that is returned has a non-empty email, equal to the
\* stored email when no email option is given.
C8_EmailRequired ==
  LET email_ == IF "email" \in DOMAIN odict THEN odict["email"] ELSE Stored.user.email
  IN /\ (pc # "resolve" /\ email_ = "") =>
          /\ pc = "Failed"
          /\ config = NoConfig
          /\ CallsIn(SubmitOps) = << >>
     /\ pc # "resolve" => (Resolved \/ pc = "Failed")
     /\ Resolved =>
          /\ config.email # ""
          /\ config.email = email_

C8_Witness ==
  /\ pc = "Failed"
  /\ err.type = "Exception"
  /\ "email" \notin DOMAIN odict
  /\ Stored.user.email = ""
  /\ Stored.user.user = "alice"

\* the solvers each category of the catalog lists with input method NL, without
\* the forbidden solver Gurobi
UsableSolvers(category) ==
  CASE category = "milp" -> {"FICO-Xpress", "CPLEX"}
    [] category = "nco"  -> {"Ipopt"}
    [] OTHER             -> {}

\* C10: when the options name a solver, a configuration is returned only if the
\* solver is among the usable solvers of the resolved category (listed with NL
\* input, not forbidden); otherwise the resolution fails with a ValueError (or
\* on a remote call) and no submit call is made; for lp, which has no usable
\* solver, every named solver is rejected.
C10_SolverValidated ==
  LET category_ == IF "category" \in DOMAIN odict THEN odict["category"]
                   ELSE Stored.neos.category
  IN ("solver" \in DOMAIN odict /\ pc # "resolve") =>
       /\ Resolved => odict["solver"] \in UsableSolvers(category_)
       /\ odict["solver"] \notin UsableSolvers(category_) =>
            /\ pc = "Failed"
            /\ err.type \in {"ValueError", "RemoteError"}
            /\ CallsIn(SubmitOps) = << >>
       /\ category_ = "lp" => pc = "Failed"

C10_Witness ==
  /\ pc = "Failed"
  /\ err = [type |-> "ValueError", msg |-> "Unsupported solver"]
  /\ "category" \notin DOMAIN odict
  /\ Stored.neos.category = "lp"
  /\ odict["solver"] = "CPLEX"

C11_OtherByteProceeds ==
  /\ id_char = "x"
  /\ pc = "config"
  /\ calls = <<"ping">>

\* ---- reading a document as an XML parser does
\* position of the first piece of doc equal to piece, from position from on
IndexFrom(doc, piece, from) ==
  CHOOSE i \in from..Len(doc) : doc[i] = piece /\ \A j \in from..(i - 1) : doc[j] # piece

\* the element <tag> of a document whose content starts with a CDATA section:
\* the section ends at the first ]]> after its start; the element is well
\* formed when its closing tag follows, since the character data that follows
\* otherwise holds a ]]>, which XML does not allow outside a CDATA section
CDataSection(doc, tag) ==
  LET start == IndexFrom(doc, "<" \o tag \o ">", 1) + 2
      end   == IndexFrom(doc, "]]>", start)
  IN [text |-> SubSeq(doc, start, end - 1),
      wellFormed |-> doc[end + 1] = "</" \o tag \o ">"]

\* the lines of a text, none for the empty text
RECURSIVE SplitLines(_, _)
SplitLines(s, current) ==
  IF s = << >> THEN (IF current = << >> THEN << >> ELSE <<current>>)
  ELSE IF Head(s) = "\n" THEN <<current>> \o SplitLines(Tail(s), << >>)
  ELSE SplitLines(Tail(s), Append(current, Head(s)))

OptionLines(doc) == SplitLines(CDataSection(doc, "options").text, << >>)

\* the keys the specification names as meant for the client
ControlKeys == {"server", "category", "solver", "priority", "email", "user"}

Built == pc = "submit"

\* C12: the options section of the document built holds one line key=value for
\* each option whose key is none of server, category, solver, priority, email,
\* user, and no other line.
C12_OptionsExcludeControlKeys ==
  Built =>
    /\ Range(OptionLines(document)) =
         {<<k, "=", odict[k]>> : k \in DOMAIN odict \ ControlKeys}
    /\ Len(OptionLines(document)) = Cardinality(DOMAIN odict \ ControlKeys)

\* C12 (the code): the lines are those of the options whose key is not in
\* script_options, which has no server: a server option is among the lines.
C12_OptionsExcludeScriptOptions ==
  Built =>
    /\ Range(OptionLines(document)) =
         {<<k, "=", odict[k]>> : k \in DOMAIN odict \ script_options}
    /\ Len(OptionLines(document)) = Cardinality(DOMAIN odict \ script_options)
    /\ "server" \in DOMAIN odict =>
         <<"server", "=", odict["server"]>> \in Range(OptionLines(document))
    /\ neos_xml = None

C12_ServerPassedThrough ==
  /\ Built
  /\ Range(OptionLines(document)) =
       {<<"server", "=", "https://alt.example.org">>, <<"timelimit", "=", "60">>}

\* C13: the model section of the document built is well formed and the text a
\* parser extracts from it is the model text, for every model text, those with
\* <, & and ]]> included.
C13_ModelRoundTrip ==
  Built =>
    /\ CDataSection(document, "model").wellFormed
    /\ CDataSection(document, "model").text = nl_mod_str

\* C13 (the code): the text is put between <![CDATA[ and ]]> as it is, so it
\* comes back exactly when it holds no ]]>; with one, the section ends there.
C13_RoundTripUnlessTerminator ==
  Built =>
    LET r == CDataSection(document, "model")
    IN IF "]]>" \in Range(nl_mod_str)
         THEN ~r.wellFormed /\ r.text # nl_mod_str
         ELSE r.wellFormed /\ r.text = nl_mod_str

C13_TerminatorCutsModel ==
  /\ Built
  /\ nl_mod_str = <<"g", "<", "]]>", "&">>
  /\ CDataSection(document, "model").text = <<"g", "<">>

ShortLoop == {"intermediate", "short_status"}
LongLoop == {"long_status"}

\* C14: the priority of every resolved configuration is short or long, the
\* short-priority loop is run only with short and the long-priority loop only
\* with long.
C14_PriorityShortOrLong ==
  Resolved =>
    /\ config.priority \in {"short", "long"}
    /\ pc \in ShortLoop => config.priority = "short"
    /\ pc \in LongLoop => config.priority = "long"

\* C14 (the code): the priority is the option's value, whatever it is, short
\* when there is none; the short-priority loop is run exactly with short and
\* the long-priority loop with every other value.
C14_PriorityIsOptionOrShort ==
  Resolved =>
    /\ config.priority = DictGet(odict, "priority", "short")
    /\ pc \in ShortLoop => config.priority = "short"
    /\ pc \in LongLoop => config.priority # "short"

C14_UrgentPollsLong ==
  /\ config.priority = "urgent"
  /\ pc = "long_status"
  /\ statuses = <<"Waiting">>

\* C15: once a getJobStatus or getIntermediateResults call has failed the run
\* is Failed for good: the failed call is the last remote call, no finalize
\* call was made, no file was written and no step is enabled; and no run makes
\* more than one submit call, a failed run included.
C15_PollingFailureIsFatal ==
  /\ (RemoteFailed /\ err.msg \in PollOps) =>
       /\ pc = "Failed"
       /\ Last(calls) = err.msg
       /\ CallsIn(FinalOps) = << >>
       /\ written = << >>
       /\ ~ENABLED Next
  /\ Len(CallsIn(SubmitOps)) <= 1
  /\ pc = "Failed" => ~ENABLED Next

C15_Witness ==
  /\ pc = "Failed"
  /\ err = RemoteError("getIntermediateResults")
  /\ statuses = <<"Waiting", "Running">>
  /\ job_id = 42

\* C16: for every option string, the dict parsed from it, written as key=value
\* tokens separated by spaces in any order of its keys and parsed again, is
\* the same dict.
C16_ParseIsIdempotent ==
  /\ pc # "parse" => odict = StrDict(ParsedPieces(options_str))
  /\ pc = "reparsed" => reparsed = odict

\* upper- and lower-case spelling of one key, an empty value, a token without =
C16_Witness ==
  /\ pc = "reparsed"
  /\ options_str = <<"K", "=", "v", " ", "k", "=">>
  /\ serialized = <<"k", "=">>
  /\ reparsed = odict
  /\ odict = [k |-> ""]

\* two keys, the empty one among them, written in the other order
C16_TwoKeysReordered ==
  /\ pc = "reparsed"
  /\ options_str = <<"=", "=", "v", " ", "k", "=">>
  /\ serialized = <<"k", "=", " ", "=", "=", "v">>
  /\ reparsed = odict

\* every field of a configuration is there
FullyPopulated(c) ==
  /\ DOMAIN c = {"neos", "user"}
  /\ DOMAIN c.neos = {"server", "category", "solver", "forbidden_solvers"}
  /\ DOMAIN c.user = {"email", "user", "keyring_id"}

\* the values of the default configuration the claim names
NamedDefaults(c) ==
  /\ c.neos.category = "milp"
  /\ c.neos.solver = "FICO-Xpress"
  /\ Len(c.neos.forbidden_solvers) = 1
  /\ c.user.email = ""
  /\ c.user.user = ""

Running(p) == procs[p].pc \notin {"idle", "done"}

\* C17: the persisted configuration, every configuration an invocation holds
\* after reading it and every configuration written hold all seven fields,
\* whatever commands were run; an invocation that has read the configuration
\* has left a file behind; and the step that finds no file persists the
\* default configuration, which is what the invocation of that step then holds.
C17_ConfigFullyPopulated ==
  /\ [](/\ cfgFile # << >> => FullyPopulated(cfgFile[1])
        /\ \A p \in Procs : Running(p) =>
             /\ cfgFile # << >>
             /\ FullyPopulated(procs[p].loaded)
             /\ FullyPopulated(procs[p].config)
        /\ \A i \in 1..Len(writes) : FullyPopulated(writes[i].content))
  /\ [][(cfgFile = << >> /\ cfgFile' # << >>) =>
          /\ FullyPopulated(cfgFile'[1])
          /\ NamedDefaults(cfgFile'[1])
          /\ \A p \in Procs :
               (procs[p].pc \in {"idle", "done"} /\ Running(p)') =>
                  procs'[p].loaded = cfgFile'[1]]_vars

\* no file at first; a new email, then new credentials, each saved
C17_Witness ==
  /\ Len(writes) = 2
  /\ writes[1].args.email = "new@example.org"
  /\ writes[2].args.set_cred
  /\ cfgFile = <<[default_config EXCEPT !.user.email = "new@example.org",
                                         !.user.user = "carol"]>>

\* C18: a step that changes an existing configuration file is the save of an
\* invocation with a set-email, set-credentials or delete-credentials option,
\* never a step of the solve-mode run or of a listing; the file stays there, and
\* its server, category, solver, forbidden solvers and keyring id are as before.
C18_FrameOfPersistedConfig ==
  [][(cfgFile # << >> /\ cfgFile' # cfgFile) =>
       /\ \E p \in Procs :
            /\ procs[p].pc = "save" /\ procs'[p].pc = "done"
            /\ ~procs[p].args.info
            /\ procs[p].args.email # None \/ procs[p].args.set_cred \/ procs[p].args.del_cred
       /\ pc' = pc
       /\ cfgFile' # << >>
       /\ cfgFile'[1].neos = cfgFile[1].neos
       /\ cfgFile'[1].user.keyring_id = cfgFile[1].user.keyring_id]_vars

\* the solve-mode run has ended, a listing was run, and the one change of the
\* stored configuration is the user name the deletion of the credentials emptied
C18_Witness ==
  /\ pc = "Failed"
  /\ \E p \in Procs : procs[p].exit = "SystemExit(0)"
  /\ Len(writes) = 1
  /\ writes[1].args.del_cred
  /\ cfgFile = <<StoredConfig("milp", "CPLEX", "me@example.org", "")>>

\* C19: nothing keeps an invocation from reading or saving while another one
\* is between its read and its save, and a save writes what the invocation
\* read, changed only in the fields of its own options, whatever was saved
\* in between: the file is then what the last save wrote.
C19_SaveOverwritesWithOwnCopy ==
  /\ \A i \in 1..Len(writes) :
       LET w == writes[i]
       IN /\ w.content.neos = w.loaded.neos
          /\ w.args.email = None => w.content.user.email = w.loaded.user.email
          /\ ~(w.args.set_cred \/ w.args.del_cred) =>
               w.content.user.user = w.loaded.user.user
  /\ writes # << >> => cfgFile = <<Last(writes).content>>
  /\ \A p \in Procs :
       /\ procs[p].pc = "save" => ENABLED SaveConfig(p)
       /\ (procs[p].pc \in {"idle", "done"} /\ started < MaxInvocations) =>
            ENABLED LoadConfig(p)

\* the lost update: both invocations read the stored email, one saved the new
\* email, then the other, which deleted the credentials, saved the old one
C19_Witness ==
  /\ Len(writes) = 2
  /\ writes[1].proc # writes[2].proc
  /\ writes[1].readAt = 0 /\ writes[2].readAt = 0
  /\ writes[1].args.email = "new@example.org"
  /\ writes[1].content.user.email = "new@example.org"
  /\ writes[2].args.email = None /\ writes[2].args.del_cred
  /\ cfgFile[1].user.email = "me@example.org"
  /\ \A p \in Procs : procs[p].pc = "done"

PollStages == {"intermediate", "short_status", "long_status"}

\* C20: a run in which no call raises and no check fails, and in which a job
\* with a non-zero id is at some time reported Done, at some time is Finished
\* with its solution file written; a run in which no status is Done never
\* reaches a finalize stage and writes no file; a status other than Done that
\* is received without error inside a loop leaves the run inside its loop, and
\* a run inside a loop can always take its next step, up to the number of
\* rounds explored.
C20_DoneLeadsToFinished ==
  /\ ([](err = NoError) /\ <>(job_id # 0 /\ status = "Done"))
       => <>(pc = "Finished" /\ Len(written) = 1)
  /\ [](status # "Done") => [](pc \notin FinalStages /\ written = << >>)
  /\ [][(pc \in PollStages /\ err' = NoError /\ status' # "Done")
          => pc' \in PollStages]_vars
  /\ []((pc \in PollStages /\ Len(statuses) <= MaxPolls) => ENABLED Next)

\* a long-priority run that was answered Done at its third status
C20_Witness ==
  /\ pc = "Finished"
  /\ config.priority = "long"
  /\ job_id = 42
  /\ statuses = <<"Waiting", "Running", "Done">>
  /\ Len(written) = 1

\* a short-priority run that was answered Done at its third status
C20_ShortFinished ==
  /\ pc = "Finished"
  /\ config.priority = "short"
  /\ statuses = <<"Waiting", "Running", "Done">>
  /\ Len(written) = 1

\* C9 (function): a configuration get_neos_config returns holds, for category,
\* solver, email and user, the option's value when the key is among the options
\* and else the stored value, which is the built-in default when no file was
\* stored; its priority is the option's, short when none is given.
C9_FunctionFollowsOrder ==
  Resolved =>
    /\ config.category = DictGet(odict, "category", Stored.neos.category)
    /\ config.solver = DictGet(odict, "solver", Stored.neos.solver)
    /\ config.email = DictGet(odict, "email", Stored.user.email)
    /\ config.user = DictGet(odict, "user", Stored.user.user)
    /\ "priority" \notin DOMAIN odict => config.priority = "short"
    /\ (odict = << >> /\ Stored.neos.category = "milp" /\ Stored.neos.solver = "FICO-Xpress")
         => (config.category = "milp" /\ config.solver = "FICO-Xpress")

\* C9: in solve mode, once the server was reached and the resolution step of the
\* run is over, the run holds the configuration resolved from its options, the
\* stored configuration and the defaults, whenever these admit one; with no
\* options and a stored milp / FICO-Xpress it holds exactly milp and FICO-Xpress.
C9_SolveModeResolves ==
  (neos # None /\ pc # "config") =>
    LET r == get_neos_config(odict, Stored, keyring)
    IN ~r.raised =>
         /\ config = r.config
         /\ (options_str = << >> /\ Stored.neos.category = "milp"
               /\ Stored.neos.solver = "FICO-Xpress")
              => (config.category = "milp" /\ config.solver = "FICO-Xpress")
====
